---------------------------- MODULE Spec2Model ----------------------------
(***************************************************************************)
(* Inbound-message decryption and dispatch core of whatsmeow (message.go). *)
(*                                                                         *)
(* One worker handles one inbound node at a time: handleEncryptedMessage   *)
(* parses the node, decryptMessages walks its children, decryptDM and      *)
(* decryptGroupMsg call the Signal engine and unpad, and                   *)
(* handleDecryptedMessage unwraps and dispatches.  Everything the handler  *)
(* does that is visible from outside (events dispatched, goroutines        *)
(* launched, engine and store calls) is appended, in program order, to the *)
(* worker's trace.  The goroutine of handleProtocolMessage runs beside the *)
(* handler and appends what it does to the same trace (SpecProto); two     *)
(* workers share the identity and session stores (SpecConc).               *)
(***************************************************************************)
EXTENDS Integers, Sequences, FiniteSets, TLC

VARIABLES
    pc,          \* per worker: position in the handler
    node,        \* per worker: the inbound node being handled
    info,        \* per worker: the *types.MessageInfo shared by the node's elements
    idx,         \* per worker: index of the child the loop of decryptMessages is at
    handled,     \* per worker: the local `handled` of decryptMessages
    trace,       \* per worker: effects of the current node, in program order
    identities,  \* cli.Store.Identities: per signal address
    sessions,    \* cli.Store.Sessions: per signal address
    senderKeys,  \* sender-key store: set of <<chat, sender address>>
    buf,         \* padding codec: the buffer the next call is given
    out          \* padding codec: the last call and what it returned

vars == <<pc, node, info, idx, handled, trace, identities, sessions, senderKeys, buf, out>>

nodeVars == <<pc, node, info, idx, handled, trace>>
storeVars == <<identities, sessions, senderKeys>>
padVars == <<buf, out>>

-----------------------------------------------------------------------------
(* Bounds *)

\* most children an inbound node carries
MaxChildren == 2

\* longest plaintext handed to the padding codec
MaxLen == 3

\* deepest nesting of wrappers in a decoded message
MaxWrap == 3

\* most children of a node that is handled together with its detached tasks
MaxProtoChildren == 1

-----------------------------------------------------------------------------
(* Identities (types.JID) *)

DefaultUserServer == "s.whatsapp.net"
GroupServer == "g.us"
BroadcastServer == "broadcast"

JID(user, server, device, ad) == [user |-> user, server |-> server, device |-> device, ad |-> ad]

\* JID.ToNonAD: the AD form loses its device and goes to the default user server
ToNonAD(jid) ==
    IF jid.ad THEN JID(jid.user, DefaultUserServer, 0, FALSE) ELSE jid

\* JID.SignalAddress as a store key: user and device
SignalAddress(jid) == <<jid.user, jid.device>>

\* cli.Store.ID: the local account
LocalID == JID("me", DefaultUserServer, 3, TRUE)

PeerJID == JID("peer", DefaultUserServer, 1, TRUE)
\* the primary device of the local account
OwnPhoneJID == JID("me", DefaultUserServer, 0, FALSE)
GroupJID == JID("grp", GroupServer, 0, FALSE)

-----------------------------------------------------------------------------
(* Attributes of a node: a map from names to typed values *)

JIDAttr(j) == [kind |-> "jid", jid |-> j, str |-> ""]
StrAttr(s) == [kind |-> "str", jid |-> JID("", "", 0, FALSE), str |-> s]

\* node.Attrs[k].(types.JID)
IsJID(attrs, k) == k \in DOMAIN attrs /\ attrs[k].kind = "jid"
\* node.Attrs[k].(string)
IsStr(attrs, k) == k \in DOMAIN attrs /\ attrs[k].kind = "str"

\* strings strconv.ParseInt(ts, 10, 64) accepts
NumericStrings == {"1700000000"}

ZeroJID == JID("", "", 0, FALSE)

\* a parser that ignores the recipient of a message of the local user
parseMessageSourceNoRecipient(attrs) ==
    LET zero == [IsGroup |-> FALSE, IsFromMe |-> FALSE, Chat |-> ZeroJID,
                 Sender |-> ZeroJID, BroadcastListOwner |-> ZeroJID]
    IN  IF ~IsJID(attrs, "from")
        THEN [err |-> TRUE, source |-> zero]
        ELSE LET from == attrs["from"].jid IN
             IF from.server = GroupServer \/ from.server = BroadcastServer
             THEN LET okP == IsJID(attrs, "participant")
                      sender == IF okP THEN attrs["participant"].jid ELSE ZeroJID
                      owner == IF from.server = BroadcastServer /\ IsJID(attrs, "recipient")
                               THEN attrs["recipient"].jid ELSE ZeroJID
                  IN [err |-> ~okP,
                      source |-> [IsGroup |-> TRUE,
                                  IsFromMe |-> okP /\ sender.user = LocalID.user,
                                  Chat |-> from,
                                  Sender |-> sender,
                                  BroadcastListOwner |-> owner]]
             ELSE [err |-> FALSE,
                   source |-> [IsGroup |-> FALSE, IsFromMe |-> from.user = LocalID.user,
                               Chat |-> ToNonAD(from),
                               Sender |-> from,
                               BroadcastListOwner |-> ZeroJID]]

\* parseMessageSource: [err, source]
parseMessageSource(attrs) ==
    LET zero == [IsGroup |-> FALSE, IsFromMe |-> FALSE, Chat |-> ZeroJID,
                 Sender |-> ZeroJID, BroadcastListOwner |-> ZeroJID]
    IN  IF ~IsJID(attrs, "from")
        THEN [err |-> TRUE, source |-> zero]
        ELSE LET from == attrs["from"].jid IN
             IF from.server = GroupServer \/ from.server = BroadcastServer
             THEN LET okP == IsJID(attrs, "participant")
                      sender == IF okP THEN attrs["participant"].jid ELSE ZeroJID
                      owner == IF from.server = BroadcastServer /\ IsJID(attrs, "recipient")
                               THEN attrs["recipient"].jid ELSE ZeroJID
                  IN [err |-> ~okP,
                      source |-> [IsGroup |-> TRUE,
                                  IsFromMe |-> okP /\ sender.user = LocalID.user,
                                  Chat |-> from,
                                  Sender |-> sender,
                                  BroadcastListOwner |-> owner]]
             ELSE IF from.user = LocalID.user
             THEN [err |-> FALSE,
                   source |-> [IsGroup |-> FALSE, IsFromMe |-> TRUE,
                               Chat |-> IF IsJID(attrs, "recipient")
                                        THEN attrs["recipient"].jid ELSE ToNonAD(from),
                               Sender |-> from,
                               BroadcastListOwner |-> ZeroJID]]
             ELSE [err |-> FALSE,
                   source |-> [IsGroup |-> FALSE, IsFromMe |-> FALSE,
                               Chat |-> ToNonAD(from),
                               Sender |-> from,
                               BroadcastListOwner |-> ZeroJID]]

NoDeviceSentMeta == <<>>

\* the zero MessageInfo
ZeroInfo ==
    [IsGroup |-> FALSE, IsFromMe |-> FALSE, Chat |-> ZeroJID, Sender |-> ZeroJID,
     BroadcastListOwner |-> ZeroJID, ID |-> "", PushName |-> "", Category |-> "",
     DeviceSentMeta |-> NoDeviceSentMeta]

\* parseMessageInfo: [err, info]
parseMessageInfo(attrs) ==
    LET src == parseMessageSource(attrs) IN
    IF src.err THEN [err |-> TRUE, info |-> ZeroInfo]
    ELSE IF ~IsStr(attrs, "id") THEN [err |-> TRUE, info |-> ZeroInfo]
    ELSE IF ~IsStr(attrs, "t") THEN [err |-> TRUE, info |-> ZeroInfo]
    ELSE IF attrs["t"].str \notin NumericStrings THEN [err |-> TRUE, info |-> ZeroInfo]
    ELSE [err |-> FALSE,
          info |-> [IsGroup |-> src.source.IsGroup,
                    IsFromMe |-> src.source.IsFromMe,
                    Chat |-> src.source.Chat,
                    Sender |-> src.source.Sender,
                    BroadcastListOwner |-> src.source.BroadcastListOwner,
                    ID |-> attrs["id"].str,
                    PushName |-> IF IsStr(attrs, "notify") THEN attrs["notify"].str ELSE "",
                    Category |-> IF IsStr(attrs, "category") THEN attrs["category"].str ELSE "",
                    DeviceSentMeta |-> NoDeviceSentMeta]]

-----------------------------------------------------------------------------
(* Padding codec: padMessage / unpadMessage on byte sequences *)

\* byte values the buffers are built from
ByteSample == {0, 1, 2, 3, 15, 255}

\* what crypto/rand can put in pad[0]
RandBytes == 0 .. 255

Buffers == UNION {[1 .. n -> ByteSample] : n \in 0 .. MaxLen}

\* bytes.Repeat([]byte{b}, n)
Repeat(b, n) == [i \in 1 .. n |-> b]

\* bytes.HasSuffix
HasSuffix(s, suffix) ==
    /\ Len(s) >= Len(suffix)
    /\ SubSeq(s, Len(s) - Len(suffix) + 1, Len(s)) = suffix

checkPadding == TRUE

\* plaintext[len(plaintext)-1] of isValidPadding: index -1 on an empty slice
LastIndexPanics(plaintext) == Len(plaintext) = 0

\* isValidPadding, for a plaintext whose last byte can be read
isValidPadding(plaintext) ==
    LET lastByte == plaintext[Len(plaintext)]
        expectedPadding == Repeat(lastByte, lastByte)
    IN  HasSuffix(plaintext, expectedPadding)

\* unpadMessage: [status: ok | err | panic, bytes]
unpadMessage(plaintext) ==
    IF checkPadding /\ LastIndexPanics(plaintext)
    THEN [status |-> "panic", bytes |-> <<>>]
    ELSE IF checkPadding /\ ~isValidPadding(plaintext)
    THEN [status |-> "err", bytes |-> <<>>]
    ELSE IF Len(plaintext) = 0 \/ Len(plaintext) - plaintext[Len(plaintext)] < 0
    THEN [status |-> "panic", bytes |-> <<>>]
    ELSE [status |-> "ok",
          bytes |-> SubSeq(plaintext, 1, Len(plaintext) - plaintext[Len(plaintext)])]

\* the pad value without the replacement of 0 by 0xf
PadValueKeepsZero(r) == r % 16

\* pad[0] &= 0xf; if pad[0] == 0 { pad[0] = 0xf }
PadValue(r) == IF r % 16 = 0 THEN 15 ELSE r % 16

\* padMessage with r the byte rand.Read delivered
padMessage(plaintext, r) == plaintext \o Repeat(PadValue(r), PadValue(r))

NoCall == [op |-> "none", arg |-> <<>>, status |-> "none", bytes |-> <<>>,
           x |-> <<>>, ofPad |-> FALSE]

\* a call of padMessage on the buffer; rand.Read may fail, and then it panics
Pad ==
    /\ out.op = "none"
    /\ \/ \E r \in RandBytes :
             /\ out' = [op |-> "pad", arg |-> buf, status |-> "ok",
                        bytes |-> padMessage(buf, r), x |-> buf, ofPad |-> FALSE]
             /\ buf' = padMessage(buf, r)
       \/ /\ out' = [op |-> "pad", arg |-> buf, status |-> "panic",
                      bytes |-> <<>>, x |-> buf, ofPad |-> FALSE]
          /\ buf' = buf
    /\ UNCHANGED <<nodeVars, storeVars>>

\* a call of unpadMessage on the buffer
Unpad ==
    /\ out.status # "panic"
    /\ LET r == unpadMessage(buf) IN
          /\ out' = [op |-> "unpad", arg |-> buf, status |-> r.status, bytes |-> r.bytes,
                     x |-> out.x, ofPad |-> (out.op = "pad")]
          /\ buf' = r.bytes
    /\ UNCHANGED <<nodeVars, storeVars>>

-----------------------------------------------------------------------------
(* Decoded application messages (waProto.Message) *)

\* an optional field is a sequence of length 0 (nil) or 1
Nil == <<>>
Some(x) == <<x>>

EmptyMessage ==
    [deviceSentMessage |-> Nil, ephemeralMessage |-> Nil, viewOnceMessage |-> Nil,
     senderKeyDistributionMessage |-> Nil, protocolMessage |-> Nil, conversation |-> ""]

Conversation(text) == [EmptyMessage EXCEPT !.conversation = text]

\* a DeviceSentMessage wrapper; inner is Nil or Some(message)
DeviceSent(dest, phash, inner) ==
    [EmptyMessage EXCEPT !.deviceSentMessage =
        Some([destinationJid |-> dest, phash |-> phash, message |-> inner])]

\* a FutureProofMessage wrapper in the ephemeralMessage field
Ephemeral(inner) == [EmptyMessage EXCEPT !.ephemeralMessage = Some([message |-> inner])]

\* a FutureProofMessage wrapper in the viewOnceMessage field
ViewOnce(inner) == [EmptyMessage EXCEPT !.viewOnceMessage = Some([message |-> inner])]

WithSKDM(m, axolotl) ==
    [m EXCEPT !.senderKeyDistributionMessage = Some([axolotl |-> axolotl])]

WithProtocol(m, hist, keyShare) ==
    [m EXCEPT !.protocolMessage =
        Some([historySyncNotification |-> hist, appStateSyncKeyShare |-> keyShare])]

\* msg.GetDeviceSentMessage().GetMessage(): nil-safe getters
GetDeviceSentInner(m) ==
    IF m.deviceSentMessage = Nil THEN Nil ELSE m.deviceSentMessage[1].message

\* msg.GetDeviceSentMessage().GetDestinationJid()
GetDestinationJid(m) ==
    IF m.deviceSentMessage = Nil THEN "" ELSE m.deviceSentMessage[1].destinationJid

\* msg.GetDeviceSentMessage().GetPhash()
GetPhash(m) ==
    IF m.deviceSentMessage = Nil THEN "" ELSE m.deviceSentMessage[1].phash

\* msg.GetEphemeralMessage().GetMessage()
GetEphemeralInner(m) ==
    IF m.ephemeralMessage = Nil THEN Nil ELSE m.ephemeralMessage[1].message

\* msg.GetViewOnceMessage().GetMessage()
GetViewOnceInner(m) ==
    IF m.viewOnceMessage = Nil THEN Nil ELSE m.viewOnceMessage[1].message

-----------------------------------------------------------------------------
(* handleDecryptedMessage *)

\* the message the code goes on with after the device-sent step
AfterDeviceSent(msg) ==
    IF GetDeviceSentInner(msg) # Nil THEN GetDeviceSentInner(msg)[1] ELSE msg

\* evt.Info.DeviceSentMeta: read through msg after msg was rebound to the inner message
DeviceSentMetaOf(inf, msg) ==
    IF GetDeviceSentInner(msg) # Nil
    THEN Some([DestinationJID |-> GetDestinationJid(AfterDeviceSent(msg)),
               Phash |-> GetPhash(AfterDeviceSent(msg))])
    ELSE inf.DeviceSentMeta

\* an unwrapper that never looks inside an ephemeral wrapper
AfterEphemeralSkipped(msg) == msg

AfterEphemeral(msg) ==
    IF GetEphemeralInner(msg) # Nil THEN GetEphemeralInner(msg)[1] ELSE msg

AfterViewOnce(msg) ==
    IF GetViewOnceInner(msg) # Nil THEN GetViewOnceInner(msg)[1] ELSE msg

\* a distribution message whose processing is put off: nothing is stored when
\* handleDecryptedMessage returns
SenderKeysDeferred(chat, from, skdm) == {}

\* handleSenderKeyDistributionMessage: the sender keys builder.Process stores
SenderKeysProcessed(chat, from, skdm) ==
    IF skdm.axolotl = "garbage" THEN {} ELSE {<<chat, SignalAddress(from)>>}

\* an event that shares the MessageInfo of the node instead of copying it:
\* the DeviceSentMeta of the event is written into the shared struct
InfoAfterAliased(inf, msg) == [inf EXCEPT !.DeviceSentMeta = DeviceSentMetaOf(inf, msg)]

\* the MessageInfo behind the info pointer when handleDecryptedMessage returns:
\* evt.Info is a copy of *info, the assignment to evt.Info.DeviceSentMeta stays
\* in the copy
InfoAfter(inf, msg) == inf

\* handleDecryptedMessage(info, msg) for child i:
\* [effects: what it appends to the trace, keys: the sender keys it stores,
\*  info: the MessageInfo behind the pointer afterwards]
handleDecryptedMessage(inf, msg, i) ==
    LET m1 == AfterDeviceSent(msg)
        meta == DeviceSentMetaOf(inf, msg)
        skdm == m1.senderKeyDistributionMessage
        doSKDM == skdm # Nil /\ inf.IsGroup
        keys == IF doSKDM THEN SenderKeysProcessed(inf.Chat, inf.Sender, skdm[1]) ELSE {}
        skdmFx == IF doSKDM
                  THEN <<[op |-> "skdm", idx |-> i, stored |-> keys # {}]>>
                  ELSE <<>>
        protoFx == IF m1.protocolMessage # Nil
                   THEN <<[op |-> "go", task |-> "handleProtocolMessage", idx |-> i,
                           info |-> inf, msg |-> m1]>>
                   ELSE <<>>
        m2 == AfterEphemeral(m1)
        m3 == AfterViewOnce(m2)
        evt == [op |-> "event", ev |-> "Message", idx |-> i,
                Info |-> [inf EXCEPT !.DeviceSentMeta = meta],
                RawMessage |-> msg,
                IsEphemeral |-> (GetEphemeralInner(m1) # Nil),
                IsViewOnce |-> (GetViewOnceInner(m2) # Nil),
                Message |-> m3]
    IN  [effects |-> skdmFx \o protoFx \o <<evt>>, keys |-> keys,
         info |-> InfoAfter(inf, msg)]

-----------------------------------------------------------------------------
(* handleProtocolMessage, the detached task of a decoded protocol message *)

\* how far handleHistorySyncNotification gets: the step that fails, or "ok"
HistoryOutcomes == {"download", "zlib", "read", "unmarshal", "ok"}

\* sendProtocolMessageReceipt(id, msgType) of task k; storeID: cli.Store.ID is
\* not nil when the call looks at it
sendProtocolMessageReceipt(id, msgType, storeID, k) ==
    <<[op |-> "call", fn |-> "sendProtocolMessageReceipt", of |-> k, id |-> id,
       type |-> msgType, storeID |-> storeID]>>
    \o (IF Len(id) = 0 \/ ~storeID THEN <<>>
        ELSE <<[op |-> "send", tag |-> "receipt", of |-> k, id |-> id, type |-> msgType]>>)

\* handleHistorySyncNotification of task k; pushNames: the sync type is PUSH_NAME
handleHistorySyncNotification(outcome, pushNames, k) ==
    <<[op |-> "call", fn |-> "Download", of |-> k, outcome |-> outcome]>>
    \o (IF outcome # "ok" THEN <<>>
        ELSE (IF pushNames
              THEN <<[op |-> "go", task |-> "handleHistoricalPushNames", of |-> k]>>
              ELSE <<>>)
             \o <<[op |-> "event", ev |-> "HistorySync", of |-> k]>>)

\* a handler that sends the hist_sync receipt only after a successful fetch
handleProtocolMessageReceiptOnSuccess(inf, msg, outcome, pushNames, storeID1, storeID2, k) ==
    LET protoMsg == msg.protocolMessage[1] IN
    (IF protoMsg.historySyncNotification /\ inf.IsFromMe
     THEN handleHistorySyncNotification(outcome, pushNames, k)
          \o (IF outcome = "ok"
              THEN sendProtocolMessageReceipt(inf.ID, "hist_sync", storeID1, k)
              ELSE <<>>)
     ELSE <<>>)
    \o (IF protoMsg.appStateSyncKeyShare /\ inf.IsFromMe
        THEN <<[op |-> "call", fn |-> "handleAppStateSyncKeyShare", of |-> k]>>
        ELSE <<>>)
    \o (IF inf.Category = "peer"
        THEN sendProtocolMessageReceipt(inf.ID, "peer_msg", storeID2, k)
        ELSE <<>>)
    \o <<[op |-> "taskdone", of |-> k]>>

\* handleProtocolMessage(info, msg) of task k: what it does, in program order
handleProtocolMessage(inf, msg, outcome, pushNames, storeID1, storeID2, k) ==
    LET protoMsg == msg.protocolMessage[1] IN
    (IF protoMsg.historySyncNotification /\ inf.IsFromMe
     THEN handleHistorySyncNotification(outcome, pushNames, k)
          \o sendProtocolMessageReceipt(inf.ID, "hist_sync", storeID1, k)
     ELSE <<>>)
    \o (IF protoMsg.appStateSyncKeyShare /\ inf.IsFromMe
        THEN <<[op |-> "call", fn |-> "handleAppStateSyncKeyShare", of |-> k]>>
        ELSE <<>>)
    \o (IF inf.Category = "peer"
        THEN sendProtocolMessageReceipt(inf.ID, "peer_msg", storeID2, k)
        ELSE <<>>)
    \o <<[op |-> "taskdone", of |-> k]>>

-----------------------------------------------------------------------------
(* Inbound nodes *)

Workers == {"w1", "w2"}

\* proto.Unmarshal on an unpadded plaintext: the first byte selects the message;
\* the empty buffer decodes to the empty message, an unknown first byte fails
Codebook ==
    (10 :> Conversation("hello")) @@
    (11 :> DeviceSent("dest", "ph", Some(Conversation("hello")))) @@
    (12 :> WithSKDM(EmptyMessage, "ok")) @@
    (13 :> WithProtocol(EmptyMessage, TRUE, FALSE)) @@
    (14 :> WithProtocol(EmptyMessage, FALSE, TRUE)) @@
    (15 :> WithProtocol(Conversation("hello"), TRUE, TRUE))

Unmarshal(bytes) ==
    IF bytes = <<>> THEN [err |-> FALSE, msg |-> EmptyMessage]
    ELSE IF bytes[1] \in DOMAIN Codebook THEN [err |-> FALSE, msg |-> Codebook[bytes[1]]]
    ELSE [err |-> TRUE, msg |-> EmptyMessage]

\* content of an enc child: ct says what the engine makes of the ciphertext
\* (garbage: it does not parse; badmac: it does not decrypt; ok: it decrypts to pt)
Content(ct, pt) == [ct |-> ct, pt |-> pt]

\* a child: its tag, its type attribute ("none": no string type attribute), its content
Child(tag, etype, content) == [tag |-> tag, etype |-> etype, content |-> content]

Enc(etype, content) == Child("enc", etype, content)

ChildKinds ==
    { Child("unavailable", "none", Content("garbage", <<>>)),
      Child("meta", "none", Content("garbage", <<>>)),
      Enc("none", Content("ok", <<10, 1>>)),
      Enc("hsm", Content("ok", <<10, 1>>)),
      Enc("pkmsg", Content("garbage", <<>>)),
      Enc("pkmsg", Content("ok", <<10, 1>>)),
      Enc("pkmsg", Content("ok", <<12, 1>>)),
      Enc("msg", Content("badmac", <<>>)),
      Enc("msg", Content("ok", <<>>)),
      Enc("msg", Content("ok", <<10, 2>>)),
      Enc("msg", Content("ok", <<0>>)),
      Enc("msg", Content("ok", <<11, 2, 2>>)),
      Enc("msg", Content("ok", <<13, 1>>)),
      Enc("skmsg", Content("badmac", <<>>)),
      Enc("skmsg", Content("ok", <<>>)),
      Enc("skmsg", Content("ok", <<10, 1>>)) }

ChildSeqs == UNION {[1 .. n -> ChildKinds] : n \in 0 .. MaxChildren}

\* attribute maps of the inbound nodes
AttrCases ==
    { \* a direct message of a peer's device
      [from |-> JIDAttr(PeerJID), id |-> StrAttr("m1"), t |-> StrAttr("1700000000")],
      \* a group message of a peer's device, with a push name
      [from |-> JIDAttr(GroupJID), participant |-> JIDAttr(PeerJID), id |-> StrAttr("m1"),
       t |-> StrAttr("1700000000"), notify |-> StrAttr("Bob")],
      \* no from
      [id |-> StrAttr("m1"), t |-> StrAttr("1700000000")],
      \* a group message without participant
      [from |-> JIDAttr(GroupJID), id |-> StrAttr("m1"), t |-> StrAttr("1700000000")],
      \* no id
      [from |-> JIDAttr(PeerJID), t |-> StrAttr("1700000000")],
      \* t is not a number
      [from |-> JIDAttr(PeerJID), id |-> StrAttr("m1"), t |-> StrAttr("soon")] }

Nodes == {[attrs |-> a, children |-> c] : a \in AttrCases, c \in ChildSeqs}

NoNode == [attrs |-> [id |-> StrAttr("")], children |-> <<>>]

\* node.GetChildrenByTag(tag)
GetChildrenByTag(n, tag) == SelectSeq(n.children, LAMBDA c : c.tag = tag)

Addrs == {SignalAddress(PeerJID), SignalAddress(OwnPhoneJID)}

-----------------------------------------------------------------------------
(* The Signal engine, as decryptDM and decryptGroupMsg see it *)

\* protocol.New...MessageFromBytes(content, ...)
Parses(content) == content.ct # "garbage"

\* cipher.DecryptMessageReturnKey(preKeyMsg): a stored identity that is not the
\* sender's current one is untrusted; success stores identity and session
DecryptPreKeyResult(content, ident) ==
    IF ident = "stale" THEN "untrusted"
    ELSE IF content.ct = "badmac" THEN "fail"
    ELSE "ok"

\* cipher.Decrypt(msg) of a pairwise session: needs a stored session, and an
\* identity that is still the sender's
DecryptResult(content, sess, ident) ==
    IF sess = {} THEN "fail"
    ELSE IF ident = "stale" THEN "untrusted"
    ELSE IF content.ct = "badmac" THEN "fail"
    ELSE "ok"

\* group cipher.Decrypt(msg): needs the sender key of (chat, sender)
GroupDecryptResult(content, hasKey) ==
    IF ~hasKey THEN "fail"
    ELSE IF content.ct = "badmac" THEN "fail"
    ELSE "ok"

EngineCall(call, i, attempt, result) ==
    [op |-> "engine", call |-> call, idx |-> i, attempt |-> attempt, result |-> result]

Failed == [status |-> "err", bytes |-> <<>>]

\* decryptDM / decryptGroupMsg of child i came back with this status
Returned(fn, i, status) == [op |-> "return", fn |-> fn, idx |-> i, status |-> status]

-----------------------------------------------------------------------------
(* decryptMessages *)

Go(task) == [op |-> "go", task |-> task]
GoRetryReceipt(unavailable) ==
    [op |-> "go", task |-> "sendRetryReceipt", unavailable |-> unavailable]
Undecryptable(inf, unavailable) ==
    [op |-> "event", ev |-> "UndecryptableMessage", Info |-> inf, IsUnavailable |-> unavailable]

\* every child is tagged unavailable
AllUnavailable(n) == Len(GetChildrenByTag(n, "unavailable")) = Len(n.children)

\* the unavailable path reporting the node like a decryption failure
UnavailableEffectsAsFailure(inf) == <<GoRetryReceipt(FALSE), Undecryptable(inf, FALSE)>>

\* the unavailable path announcing a plain decryption failure in its event
UnavailableEffectsMismatched(inf) == <<GoRetryReceipt(TRUE), Undecryptable(inf, FALSE)>>

\* what decryptMessages does for a node of unavailable children
UnavailableEffects(inf) == <<GoRetryReceipt(TRUE), Undecryptable(inf, TRUE)>>

\* a handler that launches no delivery ack
EntryEffectsNoAck(inf) ==
    IF Len(inf.PushName) > 0 /\ inf.PushName # "-"
    THEN <<Go("updatePushName")>> ELSE <<>>

\* the goroutines launched for a node that parsed, before its children are
\* looked at: the push-name update, then the delivery ack
EntryEffects(inf) ==
    (IF Len(inf.PushName) > 0 /\ inf.PushName # "-"
     THEN <<Go("updatePushName")>> ELSE <<>>) \o <<Go("sendAck")>>

\* handleEncryptedMessage(node) up to the loop of decryptMessages
handleEncryptedMessage(w, n) ==
    LET parsed == parseMessageInfo(n.attrs)
        inf == parsed.info
    IN  /\ node' = [node EXCEPT ![w] = n]
        /\ handled' = [handled EXCEPT ![w] = FALSE]
        /\ IF parsed.err
           THEN /\ pc' = [pc EXCEPT ![w] = "done"]
                /\ trace' = [trace EXCEPT ![w] = <<[op |-> "log", what |-> "parse"]>>]
                /\ UNCHANGED <<info, idx>>
           ELSE IF AllUnavailable(n)
           THEN /\ pc' = [pc EXCEPT ![w] = "done"]
                /\ info' = [info EXCEPT ![w] = inf]
                /\ trace' = [trace EXCEPT ![w] =
                      EntryEffects(inf) \o UnavailableEffects(inf)]
                /\ UNCHANGED idx
           ELSE /\ pc' = [pc EXCEPT ![w] = "loop"]
                /\ info' = [info EXCEPT ![w] = inf]
                /\ idx' = [idx EXCEPT ![w] = 1]
                /\ trace' = [trace EXCEPT ![w] = EntryEffects(inf)]
        /\ UNCHANGED <<storeVars, padVars>>

\* a free worker takes the next inbound node
HandleEncryptedMessage(w) ==
    /\ pc[w] = "idle"
    /\ \E n \in Nodes : handleEncryptedMessage(w, n)

\* a loop that reports a failed element and goes on with the next child
ElementDoneContinues(w, fn, dec, tr0) ==
    LET tr == Append(tr0, Returned(fn, idx[w], dec.status)) IN
    IF dec.status = "panic"
    THEN /\ pc' = [pc EXCEPT ![w] = "panicked"]
         /\ trace' = [trace EXCEPT ![w] = tr]
         /\ UNCHANGED <<info, idx, handled, senderKeys>>
    ELSE IF dec.status = "err"
    THEN /\ pc' = [pc EXCEPT ![w] = "loop"]
         /\ idx' = [idx EXCEPT ![w] = idx[w] + 1]
         /\ trace' = [trace EXCEPT ![w] =
               tr \o <<GoRetryReceipt(FALSE), Undecryptable(info[w], FALSE)>>]
         /\ UNCHANGED <<info, handled, senderKeys>>
    ELSE LET um == Unmarshal(dec.bytes) IN
         IF um.err
         THEN /\ pc' = [pc EXCEPT ![w] = "loop"]
              /\ idx' = [idx EXCEPT ![w] = idx[w] + 1]
              /\ trace' = [trace EXCEPT ![w] = tr]
              /\ UNCHANGED <<info, handled, senderKeys>>
         ELSE LET h == handleDecryptedMessage(info[w], um.msg, idx[w]) IN
              /\ pc' = [pc EXCEPT ![w] = "loop"]
              /\ idx' = [idx EXCEPT ![w] = idx[w] + 1]
              /\ trace' = [trace EXCEPT ![w] = tr \o h.effects]
              /\ handled' = [handled EXCEPT ![w] = TRUE]
              /\ senderKeys' = senderKeys \cup h.keys
              /\ info' = [info EXCEPT ![w] = h.info]

\* a loop that treats a plaintext that does not decode like a failed decryption
ElementDoneDecodeFailureAborts(w, fn, dec, tr0) ==
    LET tr == Append(tr0, Returned(fn, idx[w], dec.status)) IN
    IF dec.status = "panic"
    THEN /\ pc' = [pc EXCEPT ![w] = "panicked"]
         /\ trace' = [trace EXCEPT ![w] = tr]
         /\ UNCHANGED <<info, idx, handled, senderKeys>>
    ELSE IF dec.status = "err" \/ Unmarshal(dec.bytes).err
    THEN /\ pc' = [pc EXCEPT ![w] = "done"]
         /\ trace' = [trace EXCEPT ![w] =
               tr \o <<GoRetryReceipt(FALSE), Undecryptable(info[w], FALSE)>>]
         /\ UNCHANGED <<info, idx, handled, senderKeys>>
    ELSE LET h == handleDecryptedMessage(info[w], Unmarshal(dec.bytes).msg, idx[w]) IN
         /\ pc' = [pc EXCEPT ![w] = "loop"]
         /\ idx' = [idx EXCEPT ![w] = idx[w] + 1]
         /\ trace' = [trace EXCEPT ![w] = tr \o h.effects]
         /\ handled' = [handled EXCEPT ![w] = TRUE]
         /\ senderKeys' = senderKeys \cup h.keys
         /\ info' = [info EXCEPT ![w] = h.info]

\* the rest of a loop iteration, once decryptDM / decryptGroupMsg returned dec
\* (tr0: the trace with the element's engine calls appended)
ElementDone(w, fn, dec, tr0) ==
    LET tr == Append(tr0, Returned(fn, idx[w], dec.status)) IN
    IF dec.status = "panic"
    THEN /\ pc' = [pc EXCEPT ![w] = "panicked"]
         /\ trace' = [trace EXCEPT ![w] = tr]
         /\ UNCHANGED <<info, idx, handled, senderKeys>>
    ELSE IF dec.status = "err"
    THEN /\ pc' = [pc EXCEPT ![w] = "done"]
         /\ trace' = [trace EXCEPT ![w] =
               tr \o <<GoRetryReceipt(FALSE), Undecryptable(info[w], FALSE)>>]
         /\ UNCHANGED <<info, idx, handled, senderKeys>>
    ELSE LET um == Unmarshal(dec.bytes) IN
         IF um.err
         THEN /\ pc' = [pc EXCEPT ![w] = "loop"]
              /\ idx' = [idx EXCEPT ![w] = idx[w] + 1]
              /\ trace' = [trace EXCEPT ![w] = tr]
              /\ UNCHANGED <<info, handled, senderKeys>>
         ELSE LET h == handleDecryptedMessage(info[w], um.msg, idx[w]) IN
              /\ pc' = [pc EXCEPT ![w] = "loop"]
              /\ idx' = [idx EXCEPT ![w] = idx[w] + 1]
              /\ trace' = [trace EXCEPT ![w] = tr \o h.effects]
              /\ handled' = [handled EXCEPT ![w] = TRUE]
              /\ senderKeys' = senderKeys \cup h.keys
              /\ info' = [info EXCEPT ![w] = h.info]

\* a successful pre-key decrypt stores the sender's identity and the session
StorePreKeySession(w, addr) ==
    /\ identities' = [identities EXCEPT ![addr] = "current"]
    /\ sessions' = [sessions EXCEPT ![addr] = sessions[addr] \cup {w}]

\* one iteration of the loop over the children, up to the first call of the
\* engine for a pre-key message that reports an untrusted identity
DecryptChild(w) ==
    /\ pc[w] = "loop"
    /\ idx[w] <= Len(node[w].children)
    /\ LET child == node[w].children[idx[w]]
           addr == SignalAddress(info[w].Sender)
           skip == /\ idx' = [idx EXCEPT ![w] = idx[w] + 1]
                   /\ UNCHANGED <<pc, info, handled, trace, storeVars>>
       IN  IF child.tag # "enc" \/ child.etype = "none"
           THEN skip
           ELSE IF child.etype = "pkmsg"
           THEN IF ~Parses(child.content)
                THEN /\ ElementDone(w, "decryptDM", Failed,
                          Append(trace[w], EngineCall("decryptPreKeyMessage", idx[w], 1, "parse")))
                     /\ UNCHANGED <<identities, sessions>>
                ELSE LET r == DecryptPreKeyResult(child.content, identities[addr])
                         tr == Append(trace[w], EngineCall("decryptPreKeyMessage", idx[w], 1, r))
                     IN  IF r = "untrusted"
                         THEN /\ pc' = [pc EXCEPT ![w] = "delete_identity"]
                              /\ trace' = [trace EXCEPT ![w] = tr]
                              /\ UNCHANGED <<info, idx, handled, storeVars>>
                         ELSE IF r = "ok"
                         THEN /\ StorePreKeySession(w, addr)
                              /\ ElementDone(w, "decryptDM", unpadMessage(child.content.pt), tr)
                         ELSE /\ ElementDone(w, "decryptDM", Failed, tr)
                              /\ UNCHANGED <<identities, sessions>>
           ELSE IF child.etype = "msg"
           THEN LET r == IF ~Parses(child.content) THEN "parse"
                         ELSE DecryptResult(child.content, sessions[addr], identities[addr])
                    tr == Append(trace[w], EngineCall("decryptMessage", idx[w], 1, r))
                IN  /\ ElementDone(w, "decryptDM", IF r = "ok" THEN unpadMessage(child.content.pt) ELSE Failed, tr)
                    /\ UNCHANGED <<identities, sessions>>
           ELSE IF info[w].IsGroup /\ child.etype = "skmsg"
           THEN LET r == IF ~Parses(child.content) THEN "parse"
                         ELSE GroupDecryptResult(child.content,
                                                 <<info[w].Chat, addr>> \in senderKeys)
                    tr == Append(trace[w], EngineCall("decryptSenderKeyMessage", idx[w], 1, r))
                IN  /\ ElementDone(w, "decryptGroupMsg", IF r = "ok" THEN unpadMessage(child.content.pt) ELSE Failed, tr)
                    /\ UNCHANGED <<identities, sessions>>
           ELSE skip
    /\ UNCHANGED <<node, padVars>>

\* a recovery that deletes the identity and retries with the session still stored
DeleteIdentityThenRetry(w) ==
    /\ pc[w] = "delete_identity"
    /\ \E ok \in BOOLEAN :
          /\ identities' = IF ok
                THEN [identities EXCEPT ![SignalAddress(info[w].Sender)] = "none"]
                ELSE identities
          /\ trace' = [trace EXCEPT ![w] = @ \o
                <<[op |-> "store", call |-> "DeleteIdentity", idx |-> idx[w], ok |-> ok],
                  [op |-> "event", ev |-> "IdentityChange", idx |-> idx[w],
                   JID |-> info[w].Sender, Implicit |-> TRUE]>>]
    /\ pc' = [pc EXCEPT ![w] = "retry"]
    /\ UNCHANGED <<node, info, idx, handled, sessions, senderKeys, padVars>>

\* a recovery that gives up when the identity cannot be deleted
DeleteIdentityAborts(w) ==
    /\ pc[w] = "delete_identity"
    /\ \E ok \in BOOLEAN :
          LET tr == Append(trace[w],
                      [op |-> "store", call |-> "DeleteIdentity", idx |-> idx[w], ok |-> ok])
          IN  IF ok
              THEN /\ identities' =
                         [identities EXCEPT ![SignalAddress(info[w].Sender)] = "none"]
                   /\ trace' = [trace EXCEPT ![w] = tr]
                   /\ pc' = [pc EXCEPT ![w] = "delete_session"]
                   /\ UNCHANGED <<info, idx, handled, senderKeys>>
              ELSE /\ ElementDone(w, "decryptDM", Failed, tr)
                   /\ UNCHANGED identities
    /\ UNCHANGED <<node, sessions, padVars>>

\* cli.Store.Identities.DeleteIdentity: a failure is logged and nothing else
DeleteIdentity(w) ==
    /\ pc[w] = "delete_identity"
    /\ \E ok \in BOOLEAN :
          /\ identities' = IF ok
                THEN [identities EXCEPT ![SignalAddress(info[w].Sender)] = "none"]
                ELSE identities
          /\ trace' = [trace EXCEPT ![w] =
                Append(@, [op |-> "store", call |-> "DeleteIdentity", idx |-> idx[w], ok |-> ok])]
    /\ pc' = [pc EXCEPT ![w] = "delete_session"]
    /\ UNCHANGED <<node, info, idx, handled, sessions, senderKeys, padVars>>

\* cli.Store.Sessions.DeleteSession, then the IdentityChange event
DeleteSession(w) ==
    /\ pc[w] = "delete_session"
    /\ \E ok \in BOOLEAN :
          /\ sessions' = IF ok
                THEN [sessions EXCEPT ![SignalAddress(info[w].Sender)] = {}]
                ELSE sessions
          /\ trace' = [trace EXCEPT ![w] = @ \o
                <<[op |-> "store", call |-> "DeleteSession", idx |-> idx[w], ok |-> ok],
                  [op |-> "event", ev |-> "IdentityChange", idx |-> idx[w],
                   JID |-> info[w].Sender, Implicit |-> TRUE]>>]
    /\ pc' = [pc EXCEPT ![w] = "retry"]
    /\ UNCHANGED <<node, info, idx, handled, identities, senderKeys, padVars>>

\* the second cipher.DecryptMessageReturnKey and the rest of the iteration
RetryDecrypt(w) ==
    /\ pc[w] = "retry"
    /\ LET child == node[w].children[idx[w]]
           addr == SignalAddress(info[w].Sender)
           r == DecryptPreKeyResult(child.content, identities[addr])
           tr == Append(trace[w], EngineCall("decryptPreKeyMessage", idx[w], 2, r))
       IN  IF r = "ok"
           THEN /\ StorePreKeySession(w, addr)
                /\ ElementDone(w, "decryptDM", unpadMessage(child.content.pt), tr)
           ELSE /\ ElementDone(w, "decryptDM", Failed, tr)
                /\ UNCHANGED <<identities, sessions>>
    /\ UNCHANGED <<node, padVars>>

\* a receipt after every loop, handled or not
FinishNodeAlwaysReceipt(w) ==
    /\ pc[w] = "loop"
    /\ idx[w] > Len(node[w].children)
    /\ pc' = [pc EXCEPT ![w] = "done"]
    /\ trace' = [trace EXCEPT ![w] = Append(@, Go("sendMessageReceipt"))]
    /\ UNCHANGED <<node, info, idx, handled, storeVars, padVars>>

\* the goroutines of handleProtocolMessage launched for w's node that have not
\* run yet: positions of their go entries in the trace
PendingTasks(w) ==
    {k \in DOMAIN trace[w] :
        /\ trace[w][k].op = "go"
        /\ trace[w][k].task = "handleProtocolMessage"
        /\ ~\E l \in DOMAIN trace[w] : trace[w][l].op = "taskdone" /\ trace[w][l].of = k}

\* a handler that joins the protocol-message goroutines before it finishes
FinishNodeJoinsTasks(w) ==
    /\ pc[w] = "loop"
    /\ idx[w] > Len(node[w].children)
    /\ PendingTasks(w) = {}
    /\ pc' = [pc EXCEPT ![w] = "done"]
    /\ trace' = [trace EXCEPT ![w] =
          IF handled[w] THEN Append(@, Go("sendMessageReceipt")) ELSE @]
    /\ UNCHANGED <<node, info, idx, handled, storeVars, padVars>>

\* after the loop: the message receipt, once, if some element was handled
FinishNode(w) ==
    /\ pc[w] = "loop"
    /\ idx[w] > Len(node[w].children)
    /\ pc' = [pc EXCEPT ![w] = "done"]
    /\ trace' = [trace EXCEPT ![w] =
          IF handled[w] THEN Append(@, Go("sendMessageReceipt")) ELSE @]
    /\ UNCHANGED <<node, info, idx, handled, storeVars, padVars>>

\* handleEncryptedMessage returns; the worker is free for the next node
Return(w) ==
    /\ pc[w] = "done"
    /\ pc' = [pc EXCEPT ![w] = "idle"]
    /\ node' = [node EXCEPT ![w] = NoNode]
    /\ info' = [info EXCEPT ![w] = ZeroInfo]
    /\ idx' = [idx EXCEPT ![w] = 0]
    /\ handled' = [handled EXCEPT ![w] = FALSE]
    /\ trace' = [trace EXCEPT ![w] = <<>>]
    /\ UNCHANGED <<storeVars, padVars>>

\* the peer reinstalls: the identity stored for it is no longer its current one
PeerRotatesKey ==
    /\ \E a \in Addrs :
          /\ identities[a] = "current"
          /\ identities' = [identities EXCEPT ![a] = "stale"]
    /\ UNCHANGED <<nodeVars, sessions, senderKeys, padVars>>

-----------------------------------------------------------------------------
(* Specifications *)

InitNode ==
    /\ pc = [w \in Workers |-> "idle"]
    /\ node = [w \in Workers |-> NoNode]
    /\ info = [w \in Workers |-> ZeroInfo]
    /\ idx = [w \in Workers |-> 0]
    /\ handled = [w \in Workers |-> FALSE]
    /\ trace = [w \in Workers |-> <<>>]
    /\ identities = [a \in Addrs |-> "none"]
    /\ sessions = [a \in Addrs |-> {}]
    /\ senderKeys = {}

Init ==
    /\ InitNode
    /\ buf = <<>>
    /\ out = NoCall

\* one worker handling node after node
Next ==
    \/ HandleEncryptedMessage("w1")
    \/ DecryptChild("w1")
    \/ DeleteIdentity("w1")
    \/ DeleteSession("w1")
    \/ RetryDecrypt("w1")
    \/ FinishNode("w1")
    \/ Return("w1")
    \/ PeerRotatesKey

Spec == Init /\ [][Next]_vars

\* the padding codec on its own, on every buffer
InitPad ==
    /\ InitNode
    /\ buf \in Buffers
    /\ out = NoCall

NextPad == Pad \/ Unpad

SpecPad == InitPad /\ [][NextPad]_vars

-----------------------------------------------------------------------------
(* handleDecryptedMessage on its own, on every nesting of wrappers *)

\* payloads without a wrapper
Bodies ==
    { Conversation("hello"),
      EmptyMessage,
      WithSKDM(Conversation("hello"), "ok"),
      WithSKDM(EmptyMessage, "garbage"),
      WithProtocol(EmptyMessage, TRUE, FALSE) }

Destinations == {"d1", "d2"}

\* the messages of S, each also wrapped once in every way; a wrapper may have no
\* inner message, and a device-sent wrapper may sit beside an ephemeral one
WrapOnce(S) ==
    S \cup {DeviceSent(d, d, Some(m)) : d \in Destinations, m \in S}
      \cup {Ephemeral(Some(m)) : m \in S}
      \cup {ViewOnce(Some(m)) : m \in S}
      \cup {DeviceSent("d1", "d1", Nil), Ephemeral(Nil), ViewOnce(Nil)}
      \cup {[DeviceSent("d1", "d1", Some(m)) EXCEPT !.ephemeralMessage = Some([message |-> Some(m)])] :
               m \in S \cap Bodies}

RECURSIVE Wrapped(_)
Wrapped(depth) == IF depth = 0 THEN Bodies ELSE WrapOnce(Wrapped(depth - 1))

RichMessages == Wrapped(MaxWrap)

\* the MessageInfo of the nodes that parse
InfoCases == {parseMessageInfo(a).info : a \in {x \in AttrCases : ~parseMessageInfo(x).err}}

\* a call of handleDecryptedMessage(info, msg) with any decoded message
Unwrap(w) ==
    /\ pc[w] = "idle"
    /\ \E inf \in InfoCases, m \in RichMessages :
          LET h == handleDecryptedMessage(inf, m, 1) IN
          /\ info' = [info EXCEPT ![w] = h.info]
          /\ trace' = [trace EXCEPT ![w] = h.effects]
          /\ senderKeys' = senderKeys \cup h.keys
    /\ pc' = [pc EXCEPT ![w] = "done"]
    /\ UNCHANGED <<node, idx, handled, identities, sessions, padVars>>

NextUnwrap == Unwrap("w1") \/ Return("w1")

SpecUnwrap == Init /\ [][NextUnwrap]_vars

-----------------------------------------------------------------------------
(* parseMessageSource on its own, on every from / participant / recipient *)

SourceUsers == {"me", "peer"}
SourceServers == {DefaultUserServer, GroupServer, BroadcastServer}

\* identities with and without a device part
SourceJIDs ==
    {JID(u, s, 0, FALSE) : u \in SourceUsers, s \in SourceServers}
        \cup {JID(u, s, 1, TRUE) : u \in SourceUsers, s \in SourceServers}

\* what an attribute may be: a JID, a value of another type, or absent
Absent == [kind |-> "absent", jid |-> ZeroJID, str |-> ""]
SourceValues == {JIDAttr(j) : j \in SourceJIDs} \cup {StrAttr("x"), Absent}

\* the attribute map of the keys that are present
OptAttr(k, v) == IF v = Absent THEN <<>> ELSE (k :> v)

SourceAttrs ==
    {OptAttr("from", f) @@ OptAttr("participant", p) @@ OptAttr("recipient", r) :
        f \in SourceValues, p \in SourceValues, r \in SourceValues}

\* a call of parseMessageSource(node)
ParseSource(w) ==
    /\ pc[w] = "idle"
    /\ \E a \in SourceAttrs :
          LET r == parseMessageSource(a) IN
          /\ node' = [node EXCEPT ![w] = [attrs |-> a, children |-> <<>>]]
          /\ trace' = [trace EXCEPT ![w] =
                <<[op |-> "parsed", err |-> r.err, source |-> r.source]>>]
    /\ pc' = [pc EXCEPT ![w] = "done"]
    /\ UNCHANGED <<info, idx, handled, storeVars, padVars>>

NextSource == ParseSource("w1") \/ Return("w1")

SpecSource == Init /\ [][NextSource]_vars

-----------------------------------------------------------------------------
(* The handler together with the protocol-message goroutines it launches *)

\* attribute maps: of the local account's phone, the same with an empty id,
\* of a peer, and of the phone in the peer category
ProtoAttrCases ==
    { [from |-> JIDAttr(OwnPhoneJID), id |-> StrAttr("m1"), t |-> StrAttr("1700000000")],
      [from |-> JIDAttr(OwnPhoneJID), id |-> StrAttr(""), t |-> StrAttr("1700000000")],
      [from |-> JIDAttr(PeerJID), id |-> StrAttr("m1"), t |-> StrAttr("1700000000")],
      [from |-> JIDAttr(OwnPhoneJID), id |-> StrAttr("m1"), t |-> StrAttr("1700000000"),
       category |-> StrAttr("peer")] }

\* children: a history-sync notification, one together with a key share and a
\* text, a plain text, a ciphertext that does not decrypt
ProtoChildKinds ==
    { Enc("pkmsg", Content("ok", <<13, 1>>)),
      Enc("pkmsg", Content("ok", <<15, 1>>)),
      Enc("pkmsg", Content("ok", <<10, 1>>)),
      Enc("pkmsg", Content("badmac", <<>>)) }

ProtoNodes ==
    {[attrs |-> a, children |-> c] :
        a \in ProtoAttrCases,
        c \in UNION {[1 .. n -> ProtoChildKinds] : n \in 1 .. MaxProtoChildren}}

\* a free worker takes a node that may carry protocol messages
ReceiveProtocolNode(w) ==
    /\ pc[w] = "idle"
    /\ \E n \in ProtoNodes : handleEncryptedMessage(w, n)

\* the goroutine of one handleProtocolMessage(info, msg) runs; it reads the
\* MessageInfo through the pointer it was given
HandleProtocolMessage(w) ==
    /\ \E k \in PendingTasks(w) :
          \E outcome \in HistoryOutcomes, pushNames \in BOOLEAN,
             storeID1 \in BOOLEAN, storeID2 \in BOOLEAN :
             trace' = [trace EXCEPT ![w] = @ \o
                 handleProtocolMessage(info[w], trace[w][k].msg, outcome, pushNames,
                                       storeID1, storeID2, k)]
    /\ UNCHANGED <<pc, node, info, idx, handled, storeVars, padVars>>

NextProto ==
    \/ ReceiveProtocolNode("w1")
    \/ DecryptChild("w1")
    \/ FinishNode("w1")
    \/ Return("w1")
    \/ HandleProtocolMessage("w1")

\* the handler's goroutine is scheduled; nothing is assumed of the detached ones
SpecProto ==
    /\ Init
    /\ [][NextProto]_vars
    /\ WF_vars(DecryptChild("w1"))
    /\ WF_vars(FinishNode("w1"))

-----------------------------------------------------------------------------
(* Two workers handling pre-key nodes of the same sender at the same time *)

\* direct messages of the peer's device with one pre-key element
ConcNodes ==
    {[attrs |-> [from |-> JIDAttr(PeerJID), id |-> StrAttr(i), t |-> StrAttr("1700000000")],
      children |-> <<Enc("pkmsg", Content(ct, <<10, 1>>))>>] :
        i \in {"m1"}, ct \in {"ok", "badmac"}}

\* a free worker takes a pre-key node of the peer
ReceivePreKeyNode(w) ==
    /\ pc[w] = "idle"
    /\ \E n \in ConcNodes : handleEncryptedMessage(w, n)

\* the peer reinstalls while no node of it is being handled
RotateWhileIdle ==
    /\ \A w \in Workers : pc[w] = "idle"
    /\ PeerRotatesKey

\* every store call is one step; the workers' steps interleave freely
NextConc ==
    \/ RotateWhileIdle
    \/ \E w \in Workers :
          \/ ReceivePreKeyNode(w)
          \/ DecryptChild(w)
          \/ DeleteIdentity(w)
          \/ DeleteSession(w)
          \/ RetryDecrypt(w)
          \/ FinishNode(w)
          \/ Return(w)

SpecConc == Init /\ [][NextConc]_vars

-----------------------------------------------------------------------------
(* Trace helpers *)

\* number of entries of a trace that satisfy P
Count(tr, P(_)) == Cardinality({k \in DOMAIN tr : P(tr[k])})

\* positions of the entries of a trace that satisfy P
Positions(tr, P(_)) == {k \in DOMAIN tr : P(tr[k])}

-----------------------------------------------------------------------------
(* Padding codec claims, under SpecPad *)

\* the last n bytes of b exist and all equal n
TrailingPadding(b, n) ==
    /\ n <= Len(b)
    /\ \A k \in (Len(b) - n + 1) .. Len(b) : b[k] = n

\* C8: unpadMessage on a non-empty buffer with last byte n succeeds iff n is in
\* 1..255 and the final n bytes all equal n, and then returns the buffer without
\* them; in every other case (n = 0, n beyond the length) it fails with an error.
C8_UnpadIffValidPadding ==
    (out.op = "unpad" /\ Len(out.arg) > 0) =>
        LET n == out.arg[Len(out.arg)] IN
        IF n \in 1 .. 255 /\ TrailingPadding(out.arg, n)
        THEN out.status = "ok" /\ out.bytes = SubSeq(out.arg, 1, Len(out.arg) - n)
        ELSE out.status = "err"

\* C9: padMessage(x) is x followed by n copies of the byte n, n in 1..15, and
\* unpadMessage of it succeeds and gives back exactly x.
C9_PadUnpadRoundTrip ==
    /\ (out.op = "pad" /\ out.status = "ok") =>
          \E n \in 1 .. 15 :
             /\ Len(out.bytes) = Len(out.x) + n
             /\ SubSeq(out.bytes, 1, Len(out.x)) = out.x
             /\ \A k \in (Len(out.x) + 1) .. Len(out.bytes) : out.bytes[k] = n
    /\ (out.op = "unpad" /\ out.ofPad) =>
          /\ out.status = "ok"
          /\ out.bytes = out.x

\* a padded non-empty plaintext went through unpadMessage
C9_Witness ==
    /\ out.op = "unpad"
    /\ out.ofPad
    /\ Len(out.x) = MaxLen
    /\ Len(out.arg) = MaxLen + 15

-----------------------------------------------------------------------------
(* Dispatcher claims, under Spec *)

IsRetry(e, flag) == e.op = "go" /\ e.task = "sendRetryReceipt" /\ e.unavailable = flag
IsUndecryptable(e, flag) ==
    e.op = "event" /\ e.ev = "UndecryptableMessage" /\ e.IsUnavailable = flag
IsMessageEvent(e) == e.op = "event" /\ e.ev = "Message"
IsIdentityChange(e) == e.op = "event" /\ e.ev = "IdentityChange"
IsReceipt(e) == e.op = "go" /\ e.task = "sendMessageReceipt"
IsEngine(e) == e.op = "engine"
IsReturn(e) == e.op = "return"
IsStoreCall(e, call) == e.op = "store" /\ e.call = call

\* the entries that belong to one child carry its index
HasIdx(e) ==
    \/ e.op \in {"engine", "return", "store", "skdm"}
    \/ (e.op = "event" /\ e.ev \in {"Message", "IdentityChange"})
    \/ (e.op = "go" /\ e.task = "handleProtocolMessage")

\* decryptDM / decryptGroupMsg of child i of w's node returned with this status
ReturnedWith(w, i, status) ==
    \E k \in DOMAIN trace[w] :
        IsReturn(trace[w][k]) /\ trace[w][k].idx = i /\ trace[w][k].status = status

\* child i of w's node decrypted, and its plaintext unpads and decodes
Decodes(w, i) ==
    /\ ReturnedWith(w, i, "ok")
    /\ LET pt == node[w].children[i].content.pt IN
          /\ Len(pt) > 0
          /\ pt[Len(pt)] <= Len(pt)
          /\ LET body == SubSeq(pt, 1, Len(pt) - pt[Len(pt)]) IN
                body = <<>> \/ body[1] \in DOMAIN Codebook

\* C1: the first routed element whose decryption fails causes exactly one
\* non-unavailable retry receipt and exactly one UndecryptableMessage with
\* isUnavailable false; the handling of the node ends there: no later child is
\* decrypted or dispatched, the Message events of earlier children are in place,
\* and no message-received receipt is sent.
C1_FirstFailureAborts ==
    \A w \in Workers : \A i \in 1 .. Len(node[w].children) :
        ReturnedWith(w, i, "err") =>
            LET tr == trace[w] IN
            /\ pc[w] = "done"
            /\ Count(tr, LAMBDA e : IsRetry(e, FALSE)) = 1
            /\ Count(tr, LAMBDA e : IsRetry(e, TRUE)) = 0
            /\ Count(tr, LAMBDA e : IsUndecryptable(e, FALSE)) = 1
            /\ Count(tr, LAMBDA e : IsUndecryptable(e, TRUE)) = 0
            /\ Count(tr, LAMBDA e : IsReceipt(e)) = 0
            /\ Len(tr) >= 2
            /\ IsRetry(tr[Len(tr) - 1], FALSE)
            /\ IsUndecryptable(tr[Len(tr)], FALSE)
            /\ \A k \in DOMAIN tr : HasIdx(tr[k]) => tr[k].idx <= i
            /\ \A k \in DOMAIN tr : IsMessageEvent(tr[k]) => tr[k].idx < i
            /\ \A j \in 1 .. (i - 1) :
                  Decodes(w, j) =>
                      Count(tr, LAMBDA e : IsMessageEvent(e) /\ e.idx = j) = 1

\* the first child was dispatched and the second failed to decrypt
C1_Witness ==
    \E w \in Workers :
        /\ ReturnedWith(w, 2, "err")
        /\ \E k \in DOMAIN trace[w] : IsMessageEvent(trace[w][k]) /\ trace[w][k].idx = 1

\* the node of w parsed and decryptMessages took the unavailable path
OnlyUnavailable(w) ==
    /\ pc[w] = "done"
    /\ ~parseMessageInfo(node[w].attrs).err
    /\ \A k \in DOMAIN node[w].children : node[w].children[k].tag = "unavailable"

\* C4: a node all of whose children are tagged unavailable yields exactly one
\* UndecryptableMessage with isUnavailable true and exactly one retry receipt with
\* the unavailable flag, after the delivery ack, and nothing else from
\* decryptMessages: no decrypt attempt, no Message event, no message receipt.
C4_UnavailableNode ==
    \A w \in Workers :
        OnlyUnavailable(w) =>
            LET tr == SelectSeq(trace[w], LAMBDA e : ~(e.op = "go" /\ e.task = "updatePushName"))
            IN  /\ Len(tr) = 3
                /\ tr[1] = Go("sendAck")
                /\ tr[2] = GoRetryReceipt(TRUE)
                /\ tr[3] = Undecryptable(info[w], TRUE)
                /\ Count(trace[w], LAMBDA e : IsEngine(e)) = 0
                /\ Count(trace[w], LAMBDA e : IsMessageEvent(e)) = 0
                /\ Count(trace[w], LAMBDA e : IsReceipt(e)) = 0

\* a node of MaxChildren unavailable children was handled
C4_Witness ==
    \E w \in Workers :
        /\ OnlyUnavailable(w)
        /\ Len(node[w].children) = MaxChildren
        /\ Len(trace[w]) >= 3

\* the loop over the children of w's node ran to its end
LoopCompleted(w) ==
    /\ pc[w] = "done"
    /\ ~parseMessageInfo(node[w].attrs).err
    /\ ~AllUnavailable(node[w])
    /\ \A i \in 1 .. Len(node[w].children) : ~ReturnedWith(w, i, "err")

\* C5: when the loop runs to completion, the message-received receipt is sent
\* exactly once for the node if some element was decrypted, decoded and handled,
\* and not at all if none was; it is never sent more than once.
C5_ReceiptOncePerNode ==
    \A w \in Workers :
        /\ Count(trace[w], LAMBDA e : IsReceipt(e)) <= 1
        /\ LoopCompleted(w) =>
              /\ (\E i \in 1 .. Len(node[w].children) : Decodes(w, i))
                    <=> (Count(trace[w], LAMBDA e : IsMessageEvent(e)) > 0)
              /\ Count(trace[w], LAMBDA e : IsReceipt(e)) =
                    IF \E i \in 1 .. Len(node[w].children) : Decodes(w, i) THEN 1 ELSE 0

\* a node with MaxChildren handled elements got its one receipt
C5_Witness ==
    \E w \in Workers :
        /\ LoopCompleted(w)
        /\ Count(trace[w], LAMBDA e : IsMessageEvent(e)) = MaxChildren
        /\ Count(trace[w], LAMBDA e : IsReceipt(e)) = 1

\* C10: whatever the engine returns for a routed element, zero-length plaintext
\* included, decryptDM and decryptGroupMsg return a plaintext or an error, and
\* the handling of the node never ends in a panic.
C10_NeverPanics ==
    \A w \in Workers : pc[w] # "panicked"

-----------------------------------------------------------------------------
(* Pairwise decryptor claims, under Spec *)

\* positions in w's trace of the engine calls for child i with this attempt number
\* and result
EngineAt(w, i, attempt, result) ==
    Positions(trace[w], LAMBDA e : IsEngine(e) /\ e.idx = i /\ e.attempt = attempt
                                   /\ e.result = result)

\* the first attempt on pre-key child i was untrusted and the retry succeeded
RecoveredAt(w, i) ==
    /\ node[w].children[i].etype = "pkmsg"
    /\ EngineAt(w, i, 1, "untrusted") # {}
    /\ EngineAt(w, i, 2, "ok") # {}

\* C2: a pre-key decrypt whose first attempt reports an untrusted identity and
\* whose retry succeeds gives exactly one IdentityChange{implicit} for the sender
\* and one decrypted plaintext, in the order: first attempt, identity deletion,
\* session deletion, IdentityChange, second attempt.
C2_UntrustedRecoveryOrder ==
    \A w \in Workers : \A i \in 1 .. Len(node[w].children) :
        RecoveredAt(w, i) =>
            LET tr == trace[w]
                first == EngineAt(w, i, 1, "untrusted")
                delId == Positions(tr, LAMBDA e : IsStoreCall(e, "DeleteIdentity") /\ e.idx = i)
                delSess == Positions(tr, LAMBDA e : IsStoreCall(e, "DeleteSession") /\ e.idx = i)
                change == Positions(tr, LAMBDA e : IsIdentityChange(e) /\ e.idx = i)
                second == EngineAt(w, i, 2, "ok")
            IN  /\ Cardinality(first) = 1 /\ Cardinality(delId) = 1
                /\ Cardinality(delSess) = 1 /\ Cardinality(second) = 1
                /\ Cardinality(change) = 1
                /\ \A k \in change : tr[k].Implicit /\ tr[k].JID = info[w].Sender
                /\ \A a \in first, b \in delId, c \in delSess, d \in change, e \in second :
                      a < b /\ b < c /\ c < d /\ d < e
                /\ Count(tr, LAMBDA e : IsEngine(e) /\ e.idx = i /\ e.result = "ok") = 1
                /\ ReturnedWith(w, i, unpadMessage(node[w].children[i].content.pt).status)

\* a recovered pre-key element, both deletions done, handled to the end
C2_Witness ==
    \E w \in Workers : \E i \in 1 .. Len(node[w].children) :
        /\ RecoveredAt(w, i)
        /\ \E k \in DOMAIN trace[w] : IsStoreCall(trace[w][k], "DeleteSession") /\ trace[w][k].ok
        /\ \E k \in DOMAIN trace[w] : IsMessageEvent(trace[w][k]) /\ trace[w][k].idx = i

\* the first engine call for child i reported an untrusted identity
UntrustedFirst(w, i) == EngineAt(w, i, 1, "untrusted") # {}

\* number of recovery steps (deletions, IdentityChange) in w's trace for child i
RecoverySteps(w, i, call) ==
    Count(trace[w], LAMBDA e : IsStoreCall(e, call) /\ e.idx = i)

IdentityChanges(w, i) ==
    Count(trace[w], LAMBDA e : IsIdentityChange(e) /\ e.idx = i)

EngineCalls(w, i) == Count(trace[w], LAMBDA e : IsEngine(e) /\ e.idx = i)

\* decryptDM / decryptGroupMsg has returned for child i
Completed(w, i) == \E k \in DOMAIN trace[w] : IsReturn(trace[w][k]) /\ trace[w][k].idx = i

\* C3: the untrusted-identity recovery runs iff the element is a pre-key message
\* whose first attempt reports an untrusted identity, and then exactly once: at
\* most two engine calls per element, the retry and the IdentityChange happen
\* even when a deletion fails, a second failure is returned as an error with no
\* further deletion or retry; for msg and skmsg the engine is called once and
\* nothing is deleted and no IdentityChange is emitted.
C3_RecoveryExactlyOnce ==
    \A w \in Workers : \A i \in 1 .. Len(node[w].children) :
        LET recovering == node[w].children[i].etype = "pkmsg" /\ UntrustedFirst(w, i) IN
        /\ EngineCalls(w, i) <= 2
        /\ RecoverySteps(w, i, "DeleteIdentity") <= 1
        /\ RecoverySteps(w, i, "DeleteSession") <= 1
        /\ IdentityChanges(w, i) <= 1
        /\ ~recovering =>
              /\ RecoverySteps(w, i, "DeleteIdentity") = 0
              /\ RecoverySteps(w, i, "DeleteSession") = 0
              /\ IdentityChanges(w, i) = 0
              /\ EngineCalls(w, i) <= 1
        /\ Completed(w, i) =>
              IF recovering
              THEN /\ EngineCalls(w, i) = 2
                   /\ RecoverySteps(w, i, "DeleteIdentity") = 1
                   /\ RecoverySteps(w, i, "DeleteSession") = 1
                   /\ IdentityChanges(w, i) = 1
                   /\ EngineAt(w, i, 2, "ok") = {} => ReturnedWith(w, i, "err")
              ELSE EngineCalls(w, i) = 1

\* a recovery whose identity deletion failed and whose retry was untrusted again
C3_Witness ==
    \E w \in Workers : \E i \in 1 .. Len(node[w].children) :
        /\ Completed(w, i)
        /\ UntrustedFirst(w, i)
        /\ EngineAt(w, i, 2, "untrusted") # {}
        /\ \E k \in DOMAIN trace[w] :
              IsStoreCall(trace[w][k], "DeleteIdentity") /\ ~trace[w][k].ok
        /\ ReturnedWith(w, i, "err")

\* a msg element whose only engine call reported an untrusted identity
C3_WitnessMsg ==
    \E w \in Workers : \E i \in 1 .. Len(node[w].children) :
        /\ node[w].children[i].etype = "msg"
        /\ Completed(w, i)
        /\ UntrustedFirst(w, i)

-----------------------------------------------------------------------------
(* Unwrapper claims *)

\* C6: when handleDecryptedMessage unwraps a device-sent wrapper, the
\* deviceSentMeta of the emitted Message event holds the destination and the
\* phash of that wrapper (the outer envelope), not values of the inner message.
C6_DeviceSentMetaOfWrapper ==
    \A w \in Workers : \A k \in DOMAIN trace[w] :
        LET e == trace[w][k] IN
        (IsMessageEvent(e) /\ GetDeviceSentInner(e.RawMessage) # Nil) =>
            e.Info.DeviceSentMeta =
                Some([DestinationJID |-> e.RawMessage.deviceSentMessage[1].destinationJid,
                      Phash |-> e.RawMessage.deviceSentMessage[1].phash])

\* body, inside a view-once wrapper if vo, inside an ephemeral wrapper if eph,
\* inside a device-sent wrapper if ds
Nest(ds, eph, vo, body) ==
    LET a == IF vo THEN ViewOnce(Some(body)) ELSE body
        b == IF eph THEN Ephemeral(Some(a)) ELSE a
    IN  IF ds THEN DeviceSent("d1", "d1", Some(b)) ELSE b

\* C7: wrappers are unwrapped in the order device-sent, ephemeral, view-once: for
\* every combination of wrappers nested in that order around a payload, the
\* emitted Message event has deviceSentMeta set iff the device-sent wrapper is
\* there, isEphemeral iff the ephemeral one is, isViewOnce iff the view-once one
\* is, and message is the innermost payload; without a wrapper the envelope
\* itself is emitted and no flag is set.
C7_UnwrapOrder ==
    \A w \in Workers : \A k \in DOMAIN trace[w] :
        LET e == trace[w][k] IN
        IsMessageEvent(e) =>
            \A ds \in BOOLEAN, eph \in BOOLEAN, vo \in BOOLEAN, body \in Bodies :
                e.RawMessage = Nest(ds, eph, vo, body) =>
                    /\ (e.Info.DeviceSentMeta # NoDeviceSentMeta) <=> ds
                    /\ e.IsEphemeral <=> eph
                    /\ e.IsViewOnce <=> vo
                    /\ e.Message = body

\* a device-sent wrapper around an ephemeral wrapper around a plain body was
\* unwrapped
C7_Witness ==
    \E w \in Workers : \E k \in DOMAIN trace[w] :
        /\ IsMessageEvent(trace[w][k])
        /\ trace[w][k].RawMessage = Nest(TRUE, TRUE, FALSE, Conversation("hello"))
        /\ trace[w][k].IsEphemeral
        /\ trace[w][k].Message = Conversation("hello")


-----------------------------------------------------------------------------
(* Node entry claims, under Spec *)

IsAck(e) == e.op = "go" /\ e.task = "sendAck"

\* C11: the delivery ack is launched exactly once for a node iff its
\* MessageInfo parses, on every path of decryptMessages, and before any decrypt
\* attempt, event or receipt of the node (only the push-name update may come
\* before it); a node whose source or info is malformed is aborted as a whole:
\* its handling ends with the log entry and nothing else.
C11_AckIffParsed ==
    \A w \in Workers :
        pc[w] # "idle" =>
            LET tr == trace[w]
                acks == Positions(tr, IsAck)
            IN  IF parseMessageInfo(node[w].attrs).err
                THEN /\ pc[w] = "done"
                     /\ tr = <<[op |-> "log", what |-> "parse"]>>
                ELSE /\ Cardinality(acks) = 1
                     /\ \A a \in acks : \A k \in 1 .. (a - 1) :
                           tr[k] = Go("updatePushName")
                     /\ \A k \in DOMAIN tr : tr[k].op # "log"

\* a node with a push name whose second child failed to decrypt after the first
\* was dispatched: the one ack sits between the push-name update and the rest
C11_Witness ==
    \E w \in Workers :
        /\ pc[w] = "done"
        /\ Len(trace[w]) > 4
        /\ trace[w][1] = Go("updatePushName")
        /\ IsAck(trace[w][2])
        /\ IsEngine(trace[w][3])
        /\ Count(trace[w], IsMessageEvent) = 1
        /\ IsUndecryptable(trace[w][Len(trace[w])], FALSE)


-----------------------------------------------------------------------------
(* Source resolver claims, under SpecSource *)

\* parseMessageSource has returned for the node of w
SourceParsed(w) == pc[w] = "done" /\ Len(trace[w]) = 1 /\ trace[w][1].op = "parsed"

\* C12: parseMessageSource depends on from, participant, recipient and the local
\* user only: without a from it fails; a group or broadcast from gives isGroup,
\* chat = from, sender = participant (it fails without one) and
\* broadcastListOwner = recipient for broadcast only; any other from gives
\* sender = from and chat = recipient when from's user is the local user and a
\* recipient is there, else the non-AD form of from; in every successful result
\* isFromMe holds iff the sender's user is the local user.
C12_SourceResolution ==
    \A w \in Workers :
        SourceParsed(w) =>
            LET a == node[w].attrs
                r == trace[w][1]
                s == r.source
                has(k) == k \in DOMAIN a /\ a[k].kind = "jid"
            IN  /\ ~has("from") => r.err
                /\ has("from") =>
                      LET from == a["from"].jid IN
                      IF from.server \in {GroupServer, BroadcastServer}
                      THEN /\ r.err <=> ~has("participant")
                           /\ ~r.err =>
                                 /\ s.IsGroup
                                 /\ s.Chat = from
                                 /\ s.Sender = a["participant"].jid
                                 /\ s.BroadcastListOwner =
                                       IF from.server = BroadcastServer /\ has("recipient")
                                       THEN a["recipient"].jid ELSE ZeroJID
                      ELSE /\ ~r.err
                           /\ ~s.IsGroup
                           /\ s.Sender = from
                           /\ s.BroadcastListOwner = ZeroJID
                           /\ s.Chat = IF from.user = LocalID.user /\ has("recipient")
                                       THEN a["recipient"].jid
                                       ELSE JID(from.user,
                                                IF from.ad THEN DefaultUserServer ELSE from.server,
                                                IF from.ad THEN 0 ELSE from.device, FALSE)
                /\ ~r.err => (s.IsFromMe <=> s.Sender.user = LocalID.user)

\* a message of another device of the local user, with a recipient
C12_Witness ==
    \E w \in Workers :
        /\ SourceParsed(w)
        /\ ~trace[w][1].err
        /\ trace[w][1].source.IsFromMe
        /\ ~trace[w][1].source.IsGroup
        /\ trace[w][1].source.Sender = JID("me", DefaultUserServer, 1, TRUE)
        /\ trace[w][1].source.Chat = JID("peer", DefaultUserServer, 0, FALSE)

\* C13: in every MessageSource that parseMessageSource returns without error,
\* whatever well-typed from, participant and recipient it is given, the sender
\* is a device-qualified identity and the chat a device-independent one.
C13_SenderQualifiedChatIndependent ==
    \A w \in Workers :
        (SourceParsed(w) /\ ~trace[w][1].err) =>
            /\ trace[w][1].source.Sender.ad
            /\ ~trace[w][1].source.Chat.ad


-----------------------------------------------------------------------------
(* Loop claims, under Spec *)

\* child i of w's node is not routed to a decryptor
NotRouted(w, i) ==
    LET child == node[w].children[i] IN
    \/ child.tag # "enc"
    \/ child.etype = "none"
    \/ child.etype \notin {"pkmsg", "msg", "skmsg"}
    \/ (child.etype = "skmsg" /\ ~info[w].IsGroup)

\* child i decrypted, and its plaintext does not decode
DecodeFails(w, i) == ReturnedWith(w, i, "ok") /\ ~Decodes(w, i)

\* the loop of w is past child i, which it skipped
SkippedAt(w, i) ==
    /\ pc[w] \in {"loop", "delete_identity", "delete_session", "retry", "done"}
    /\ idx[w] > i
    /\ NotRouted(w, i) \/ DecodeFails(w, i)

\* C14: an element that is skipped (not tagged enc, no string type, unhandled
\* type, skmsg outside a group, or a plaintext that does not decode) leaves no
\* UndecryptableMessage, no retry receipt and no Message event, does not count
\* as handled, and the loop goes on with every later sibling.
C14_SkippedElementsAreSilent ==
    \A w \in Workers : \A i \in 1 .. Len(node[w].children) :
        SkippedAt(w, i) =>
            LET tr == trace[w]
                n == Len(node[w].children)
                failed == {j \in 1 .. n : ReturnedWith(w, j, "err")}
            IN  /\ \A k \in DOMAIN tr :
                      (HasIdx(tr[k]) /\ tr[k].idx = i) =>
                          /\ ~NotRouted(w, i)
                          /\ tr[k].op \in {"engine", "return", "store"}
                                \/ IsIdentityChange(tr[k])
                /\ Count(tr, LAMBDA e : IsUndecryptable(e, FALSE)) = Cardinality(failed)
                /\ Count(tr, LAMBDA e : IsRetry(e, FALSE)) = Cardinality(failed)
                /\ Count(tr, LAMBDA e : IsUndecryptable(e, TRUE)) = 0
                /\ Count(tr, LAMBDA e : IsRetry(e, TRUE)) = 0
                /\ \A j \in failed : j > i
                /\ handled[w] <=> \E j \in 1 .. n : Decodes(w, j)
                /\ Count(tr, IsReceipt) > 0 => \E j \in 1 .. n : Decodes(w, j)
                /\ \A j \in (i + 1) .. n :
                      j < idx[w] => (NotRouted(w, j) \/ Completed(w, j))
                /\ pc[w] = "done" => (idx[w] = n + 1 \/ ReturnedWith(w, idx[w], "err"))

\* the first child decrypted to a plaintext that does not decode, the second
\* was dispatched and the node got its receipt
C14_Witness ==
    \E w \in Workers :
        /\ pc[w] = "done"
        /\ Len(node[w].children) = 2
        /\ DecodeFails(w, 1)
        /\ SkippedAt(w, 1)
        /\ Decodes(w, 2)
        /\ Count(trace[w], IsMessageEvent) = 1
        /\ Count(trace[w], IsReceipt) = 1


\* the message child i of w's node decodes to (Decodes(w, i) says that it does)
DecodedBody(w, i) ==
    LET pt == node[w].children[i].content.pt
        body == SubSeq(pt, 1, Len(pt) - pt[Len(pt)])
    IN  IF body = <<>> THEN EmptyMessage ELSE Codebook[body[1]]

\* child i of a group node carried a sender-key distribution message that
\* parses, and the loop is past it
DistributedAt(w, i) ==
    /\ info[w].IsGroup
    /\ idx[w] > i
    /\ Decodes(w, i)
    /\ AfterDeviceSent(DecodedBody(w, i)).senderKeyDistributionMessage # Nil
    /\ AfterDeviceSent(DecodedBody(w, i)).senderKeyDistributionMessage[1].axolotl # "garbage"

\* C15: the children of a node are decrypted one after another in document
\* order: the entries of the trace are ordered by child, and the engine is
\* called for a child only after the decryptor of every earlier routed child has
\* returned; a sender-key distribution of an earlier element of a group node is
\* in the sender-key store of (chat, sender) before a later sibling is
\* decrypted, so that a later skmsg with a sound ciphertext decrypts.
C15_SequentialAndSKDMFirst ==
    \A w \in Workers :
        LET tr == trace[w]
            n == Len(node[w].children)
            byChild == SelectSeq(tr, HasIdx)
        IN  /\ \A k \in 1 .. (Len(byChild) - 1) : byChild[k].idx <= byChild[k + 1].idx
            /\ \A l \in DOMAIN tr :
                  IsEngine(tr[l]) =>
                      \A i \in 1 .. (tr[l].idx - 1) :
                          EngineCalls(w, i) > 0 =>
                              \E k \in 1 .. (l - 1) : IsReturn(tr[k]) /\ tr[k].idx = i
            /\ \A i \in 1 .. n :
                  DistributedAt(w, i) =>
                      /\ <<info[w].Chat, SignalAddress(info[w].Sender)>> \in senderKeys
                      /\ \E k \in DOMAIN tr :
                            /\ tr[k].op = "skdm" /\ tr[k].idx = i /\ tr[k].stored
                            /\ \A l \in DOMAIN tr :
                                  (IsEngine(tr[l]) /\ tr[l].idx > i) => k < l
                      /\ \A l \in DOMAIN tr :
                            (/\ IsEngine(tr[l])
                             /\ tr[l].idx > i
                             /\ tr[l].call = "decryptSenderKeyMessage"
                             /\ node[w].children[tr[l].idx].content.ct = "ok")
                                => tr[l].result = "ok"

\* a group node whose first child carried the distribution message and whose
\* second child, an skmsg, then decrypted and was dispatched
C15_Witness ==
    \E w \in Workers :
        /\ Len(node[w].children) = 2
        /\ DistributedAt(w, 1)
        /\ node[w].children[2].etype = "skmsg"
        /\ EngineAt(w, 2, 1, "ok") # {}
        /\ \E k \in DOMAIN trace[w] : IsMessageEvent(trace[w][k]) /\ trace[w][k].idx = 2


-----------------------------------------------------------------------------
(* Detached task claims, under SpecProto *)

\* every element of w's node that decrypted and decoded has its one Message
\* event, no other element has one, and the event follows the launch of the
\* element's protocol-message goroutine at once
OneMessageEventEach(w) ==
    /\ \A i \in 1 .. Len(node[w].children) :
          Count(trace[w], LAMBDA e : IsMessageEvent(e) /\ e.idx = i) =
              IF Decodes(w, i) THEN 1 ELSE 0
    /\ \A k \in DOMAIN trace[w] :
          (trace[w][k].op = "go" /\ trace[w][k].task = "handleProtocolMessage") =>
              /\ k < Len(trace[w])
              /\ IsMessageEvent(trace[w][k + 1])
              /\ trace[w][k + 1].idx = trace[w][k].idx

\* C16: every element that decrypts and decodes yields exactly one Message
\* event, and neither the emission nor the end of the node's handling waits for
\* a detached task: with the handler's goroutine scheduled and nothing assumed
\* of the goroutines it launched, the handling of every node comes to its end.
C16_NoWaitingOnDetachedTasks ==
    /\ [](\A w \in Workers : OneMessageEventEach(w))
    /\ \A w \in Workers : (pc[w] = "loop") ~> (pc[w] = "done")

\* the handling of a node is over, each of its elements was dispatched, and a
\* protocol-message goroutine it launched has not run
C16_Witness ==
    \E w \in Workers :
        /\ pc[w] = "done"
        /\ PendingTasks(w) # {}
        /\ Len(node[w].children) = MaxProtoChildren
        /\ Count(trace[w], IsMessageEvent) = MaxProtoChildren
        /\ Count(trace[w], IsReceipt) = 1


\* the goroutine launched at position k of w's trace has run
TaskDone(w, k) ==
    /\ k \in DOMAIN trace[w]
    /\ trace[w][k].op = "go"
    /\ trace[w][k].task = "handleProtocolMessage"
    /\ \E l \in DOMAIN trace[w] : trace[w][l].op = "taskdone" /\ trace[w][l].of = k

\* entries of task k in w's trace
IsDownload(e, k) == e.op = "call" /\ e.fn = "Download" /\ e.of = k
IsHistorySync(e, k) == e.op = "event" /\ e.ev = "HistorySync" /\ e.of = k
IsHistReceiptCall(e, k) ==
    e.op = "call" /\ e.fn = "sendProtocolMessageReceipt" /\ e.of = k /\ e.type = "hist_sync"
IsHistReceipt(e, k) ==
    e.op = "send" /\ e.tag = "receipt" /\ e.of = k /\ e.type = "hist_sync"

\* C17: for a protocol message with a history-sync notification: if the message
\* is not from the local account nothing is downloaded, no HistorySync event is
\* emitted and no hist_sync receipt is sent; if it is, the download is tried
\* once, a HistorySync event is emitted iff download, decompression and decoding
\* all succeed, and whatever the outcome one hist_sync receipt for the id of the
\* message is sent, unless the id is empty or the local identity is not set.
C17_HistorySyncOnlyFromMe ==
    \A w \in Workers : \A k \in DOMAIN trace[w] :
        (TaskDone(w, k) /\ trace[w][k].msg.protocolMessage[1].historySyncNotification) =>
            LET tr == trace[w]
                downloads == Positions(tr, LAMBDA e : IsDownload(e, k))
                calls == Positions(tr, LAMBDA e : IsHistReceiptCall(e, k))
                events == Count(tr, LAMBDA e : IsHistorySync(e, k))
                receipts == Positions(tr, LAMBDA e : IsHistReceipt(e, k))
            IN  IF ~info[w].IsFromMe
                THEN downloads = {} /\ events = 0 /\ calls = {} /\ receipts = {}
                ELSE /\ Cardinality(downloads) = 1
                     /\ Cardinality(calls) = 1
                     /\ \A d \in downloads :
                           events = IF tr[d].outcome = "ok" THEN 1 ELSE 0
                     /\ \A c \in calls :
                           /\ tr[c].id = info[w].ID
                           /\ Cardinality(receipts) =
                                 IF Len(info[w].ID) > 0 /\ tr[c].storeID THEN 1 ELSE 0
                     /\ \A r \in receipts : tr[r].id = info[w].ID
                     /\ \A d \in downloads, c \in calls : d < c

\* a notification of the local account's phone whose download failed: no
\* HistorySync event, and the hist_sync receipt was sent
C17_Witness ==
    \E w \in Workers : \E k \in DOMAIN trace[w] :
        /\ TaskDone(w, k)
        /\ info[w].IsFromMe
        /\ \E d \in DOMAIN trace[w] :
              IsDownload(trace[w][d], k) /\ trace[w][d].outcome = "download"
        /\ Count(trace[w], LAMBDA e : IsHistorySync(e, k)) = 0
        /\ Count(trace[w], LAMBDA e : IsHistReceipt(e, k)) = 1


-----------------------------------------------------------------------------
(* Per-node accounting claims, under Spec *)

\* C18: a node produces at most one UndecryptableMessage and at most one retry
\* receipt; a retry receipt is followed at once by the one UndecryptableMessage,
\* which carries the same unavailable flag, and there is no UndecryptableMessage
\* without its retry receipt; no node has both a retry receipt and a
\* message-received receipt.
C18_OneFailureReportPerNode ==
    \A w \in Workers :
        LET tr == trace[w]
            retries == Positions(tr, LAMBDA e : e.op = "go" /\ e.task = "sendRetryReceipt")
            events == Positions(tr, LAMBDA e : e.op = "event" /\ e.ev = "UndecryptableMessage")
        IN  /\ Cardinality(retries) <= 1
            /\ Cardinality(events) <= 1
            /\ Cardinality(retries) = Cardinality(events)
            /\ \A r \in retries :
                  /\ r + 1 \in events
                  /\ tr[r + 1].IsUnavailable = tr[r].unavailable
                  /\ tr[r + 1].Info = info[w]
            /\ retries # {} => Count(tr, IsReceipt) = 0
            /\ Count(tr, IsReceipt) > 0 => (retries = {} /\ events = {})

\* a node whose first child was handled and whose second failed: one retry
\* receipt, one UndecryptableMessage, and no message-received receipt
C18_Witness ==
    \E w \in Workers :
        /\ pc[w] = "done"
        /\ handled[w]
        /\ Count(trace[w], LAMBDA e : IsRetry(e, FALSE)) = 1
        /\ Count(trace[w], LAMBDA e : IsUndecryptable(e, FALSE)) = 1
        /\ Count(trace[w], IsReceipt) = 0


-----------------------------------------------------------------------------
(* Frame claims, under Spec *)

\* C19: handleDecryptedMessage never changes the MessageInfo the elements of a
\* node share: it stays what parseMessageInfo returned, without deviceSentMeta;
\* a Message event carries that info with deviceSentMeta attached only if its own
\* element was a device-sent wrapper, and the UndecryptableMessage events and
\* the info handed to the protocol-message goroutine carry it unchanged.
C19_SharedInfoNotMutated ==
    \A w \in Workers :
        (pc[w] # "idle" /\ ~parseMessageInfo(node[w].attrs).err) =>
            LET parsed == parseMessageInfo(node[w].attrs).info IN
            /\ info[w] = parsed
            /\ parsed.DeviceSentMeta = NoDeviceSentMeta
            /\ \A k \in DOMAIN trace[w] :
                  LET e == trace[w][k] IN
                  /\ IsMessageEvent(e) =>
                        /\ [e.Info EXCEPT !.DeviceSentMeta = NoDeviceSentMeta] = parsed
                        /\ (e.Info.DeviceSentMeta # NoDeviceSentMeta)
                              <=> (GetDeviceSentInner(e.RawMessage) # Nil)
                  /\ (e.op = "event" /\ e.ev = "UndecryptableMessage") => e.Info = parsed
                  /\ (e.op = "go" /\ e.task = "handleProtocolMessage") => e.info = parsed

\* the first child was a device-sent wrapper and got its deviceSentMeta; the
\* second child was dispatched without one
C19_Witness ==
    \E w \in Workers :
        /\ Len(node[w].children) = 2
        /\ \E k \in DOMAIN trace[w] :
              /\ IsMessageEvent(trace[w][k])
              /\ trace[w][k].idx = 1
              /\ trace[w][k].Info.DeviceSentMeta # NoDeviceSentMeta
        /\ \E k \in DOMAIN trace[w] :
              /\ IsMessageEvent(trace[w][k])
              /\ trace[w][k].idx = 2
              /\ trace[w][k].Info.DeviceSentMeta = NoDeviceSentMeta


-----------------------------------------------------------------------------
(* Concurrency claims, under SpecConc *)

\* C20: when two workers handle pre-key nodes of the same sender at the same
\* time, both first attempts report an untrusted identity and both retries
\* succeed, no recovery deletes what the other's retry stored: once both
\* handlers are done the identity is stored and the session record holds the
\* session state of both decrypts.
C20_ConcurrentRecoveriesKeepSessions ==
    (\A w \in Workers : pc[w] = "done" /\ RecoveredAt(w, 1)) =>
        /\ identities[SignalAddress(PeerJID)] = "current"
        /\ sessions[SignalAddress(PeerJID)] = Workers

=============================================================================
